---- MODULE Spec2Model ----
(***************************************************************************)
(* A model of sjtu::priority_queue (priority_queue.hpp): a pairing heap    *)
(* whose nodes live in a pointer arena.  Node identifiers are addresses,   *)
(* 0 is nullptr.  Two queue objects, A and B, share the arena, as two      *)
(* objects of a C++ program share the free store.                          *)
(***************************************************************************)
EXTENDS Integers, FiniteSets, Sequences, TLC

\* ------------------------------------------------------------------ bounds
MaxVal == 2
MaxNodes == 4

Values == 1..MaxVal
Nodes == 1..MaxNodes
Queues == {"A", "B"}
QueueOrder == <<"A", "B">>
NULL == 0

VARIABLES
    heap,          \* address -> pq_node {val, child, sibling}
    live,          \* addresses allocated by new and not yet deleted
    constructed,   \* queue object -> its lifetime has begun and not ended
    root,          \* queue object -> pq_node *root
    raw_size_,     \* queue object -> size_t raw_size_
    ledger,        \* queue object -> pushes - pops - moved out + moved in (ghost)
    copyOf,        \* queue object -> the queue it was last copied from, or "-" (ghost)
    ub,            \* undefined behaviour has been executed
    last           \* the last call: operation, operands, outcome, state before it

vars == <<heap, live, constructed, root, raw_size_, ledger, copyOf, ub, last>>

\* ------------------------------------------------------------- the arena
\* The content of a cell that holds no node.
Blank == [val |-> 0, child |-> NULL, sibling |-> NULL]

\* pq_node(T val, pq_node *child, pq_node *sibling)
pq_node(v, c, s) == [val |-> v, child |-> c, sibling |-> s]

Min(S) == CHOOSE x \in S : \A y \in S : x <= y

\* new pq_node(...): the address the allocator hands out.
NewAddr(lv) == Min(Nodes \ lv)

\* ------------------------------------------------------------ comparator
\* The comparator is std::less<T> wrapped by a caller that may make it throw:
\* on the n-th invocation inside the running operation, or on a pair of values.
\* pop of a root with MaxNodes - 1 children makes the most calls: one per
\* adjacent pair in each pass.
MaxCalls == 2 * (MaxNodes - 2)
NoThrow == [kind |-> "never", n |-> 0, x |-> 0, y |-> 0]
ThrowModes ==
    {NoThrow}
    \cup {[kind |-> "nth", n |-> n, x |-> 0, y |-> 0] : n \in 1..MaxCalls}
    \cup {[kind |-> "pair", n |-> 0, x |-> x, y |-> y] : x \in Values, y \in Values}

\* std::less<T>()(x, y)
Less(x, y) == x < y

\* Whether the k-th invocation Compare()(x, y) of the operation throws.
CompareThrows(mode, k, x, y) ==
    \/ mode.kind = "nth" /\ mode.n = k
    \/ mode.kind = "pair" /\ mode.x = x /\ mode.y = y

\* --------------------------------------------------------- graph helpers
\* The nodes reachable from address r by child and sibling links.
RECURSIVE ReachFrom(_, _, _)
ReachFrom(h, frontier, seen) ==
    IF frontier = {} THEN seen
    ELSE LET nxt == {h[n].child : n \in frontier} \cup {h[n].sibling : n \in frontier}
             new == (nxt \ {NULL}) \ (seen \cup frontier)
         IN  ReachFrom(h, new, seen \cup frontier)

Reach(h, r) == IF r = NULL THEN {} ELSE ReachFrom(h, {r}, {})

\* The multiset of values held by the graph of r: value -> multiplicity.
Elems(h, r) == [v \in Values |-> Cardinality({n \in Reach(h, r) : h[n].val = v})]

EmptyBag == [v \in Values |-> 0]
BagAdd(b, v) == [b EXCEPT ![v] = @ + 1]
BagSum(b1, b2) == [v \in Values |-> b1[v] + b2[v]]

\* The graph of r as a value: <<>> for nullptr, else the node's value, the
\* shape of its child graph and the shape of its sibling graph.  Two graphs
\* are structurally equal exactly when their shapes are equal.
RECURSIVE Shape(_, _)
Shape(h, r) ==
    IF r = NULL THEN <<>>
    ELSE <<h[r].val, Shape(h, h[r].child), Shape(h, h[r].sibling)>>

\* The children of node n, in list order (child, then the sibling chain).
RECURSIVE Chain(_, _)
Chain(h, c) == IF c = NULL THEN <<>> ELSE <<c>> \o Chain(h, h[c].sibling)
Children(h, n) == Chain(h, h[n].child)

\* Addresses carry no meaning beyond equality, so every state is kept in one
\* numbering: the nodes of A's graph in depth-first order (node, child graph,
\* sibling graph), then those of B's graph, then the other live nodes, then
\* the free cells.  A live node that no root reaches has leaked: no code can
\* read it again, so its cell is kept allocated and its content is dropped.
Range(f) == {f[i] : i \in DOMAIN f}

RECURSIVE Dfs(_, _, _)
Dfs(h, n, acc) ==
    IF n = NULL \/ n \in Range(acc) THEN acc
    ELSE Dfs(h, h[n].sibling, Dfs(h, h[n].child, Append(acc, n)))

RECURSIVE Ascending(_)
Ascending(S) == IF S = {} THEN <<>> ELSE <<Min(S)>> \o Ascending(S \ {Min(S)})

Renumber(h, lv, rt) ==
    LET a     == Dfs(h, rt[QueueOrder[1]], <<>>)
        ab    == Dfs(h, rt[QueueOrder[2]], a)
        order == ab \o Ascending(lv \ Range(ab))
                    \o Ascending(Nodes \ (lv \cup Range(ab)))
        to    == [n \in Nodes |-> CHOOSE i \in Nodes : order[i] = n]
        ptr(p) == IF p = NULL THEN NULL ELSE to[p]
    IN  [h    |-> [i \in Nodes |->
                     IF i > Len(ab) THEN Blank
                     ELSE [val     |-> h[order[i]].val,
                           child   |-> ptr(h[order[i]].child),
                           sibling |-> ptr(h[order[i]].sibling)]],
         live |-> {to[n] : n \in lv},
         root |-> [q \in Queues |-> ptr(rt[q])]]

\* ------------------------------------------------------- pq_node methods
\* pq_node::recursive_del: the addresses it deletes (everything at the right
\* of and below n, n itself excluded).
RECURSIVE recursive_del(_, _)
recursive_del(h, n) ==
    (IF h[n].child # NULL
        THEN recursive_del(h, h[n].child) \cup {h[n].child} ELSE {})
    \cup
    (IF h[n].sibling # NULL
        THEN recursive_del(h, h[n].sibling) \cup {h[n].sibling} ELSE {})

\* recursive_dup as a shallow copy: no node is allocated, the original is shared.
recursive_dup_shallow(h, lv, n) == [h |-> h, live |-> lv, ret |-> n]

\* pq_node::recursive_dup on node n: a fresh node with n's value, then the
\* duplicate of the child graph, then the duplicate of the sibling graph.
RECURSIVE recursive_dup(_, _, _)
recursive_dup(h, lv, n) ==
    LET self == NewAddr(lv)
        h0   == [h EXCEPT ![self] = pq_node(h[n].val, NULL, NULL)]
        lv0  == lv \cup {self}
        c    == IF h[n].child # NULL
                   THEN recursive_dup(h0, lv0, h[n].child)
                   ELSE [h |-> h0, live |-> lv0, ret |-> NULL]
        h1   == IF h[n].child # NULL
                   THEN [c.h EXCEPT ![self].child = c.ret] ELSE c.h
        s    == IF h[n].sibling # NULL
                   THEN recursive_dup(h1, c.live, h[n].sibling)
                   ELSE [h |-> h1, live |-> c.live, ret |-> NULL]
        h2   == IF h[n].sibling # NULL
                   THEN [s.h EXCEPT ![self].sibling = s.ret] ELSE s.h
    IN  [h |-> h2, live |-> s.live, ret |-> self]

\* ------------------------------------------------------------ heap engine
\* meld_nodes with the test inverted: the node that precedes becomes the root.
meld_nodes_inverted(h, node_a, node_b, mode, k) ==
    IF node_a = NULL THEN [h |-> h, ret |-> node_b, thrown |-> FALSE, k |-> k]
    ELSE IF node_b = NULL THEN [h |-> h, ret |-> node_a, thrown |-> FALSE, k |-> k]
    ELSE IF CompareThrows(mode, k + 1, h[node_a].val, h[node_b].val)
        THEN [h |-> h, ret |-> NULL, thrown |-> TRUE, k |-> k + 1]
    ELSE IF ~Less(h[node_a].val, h[node_b].val)
        THEN LET h1 == [h EXCEPT ![node_a].sibling = h[node_b].child]
                 h2 == [h1 EXCEPT ![node_b].child = node_a]
             IN  [h |-> h2, ret |-> node_b, thrown |-> FALSE, k |-> k + 1]
        ELSE LET h1 == [h EXCEPT ![node_b].sibling = h[node_a].child]
                 h2 == [h1 EXCEPT ![node_a].child = node_b]
             IN  [h |-> h2, ret |-> node_a, thrown |-> FALSE, k |-> k + 1]

\* meld_nodes that asks the comparator both ways round before it links.
meld_nodes_comparesTwice(h, node_a, node_b, mode, k) ==
    IF node_a = NULL THEN [h |-> h, ret |-> node_b, thrown |-> FALSE, k |-> k]
    ELSE IF node_b = NULL THEN [h |-> h, ret |-> node_a, thrown |-> FALSE, k |-> k]
    ELSE IF CompareThrows(mode, k + 1, h[node_a].val, h[node_b].val)
        THEN [h |-> h, ret |-> NULL, thrown |-> TRUE, k |-> k + 1]
    ELSE IF CompareThrows(mode, k + 2, h[node_b].val, h[node_a].val)
        THEN [h |-> h, ret |-> NULL, thrown |-> TRUE, k |-> k + 2]
    ELSE IF Less(h[node_a].val, h[node_b].val)
        THEN LET h1 == [h EXCEPT ![node_a].sibling = h[node_b].child]
                 h2 == [h1 EXCEPT ![node_b].child = node_a]
             IN  [h |-> h2, ret |-> node_b, thrown |-> FALSE, k |-> k + 2]
        ELSE LET h1 == [h EXCEPT ![node_b].sibling = h[node_a].child]
                 h2 == [h1 EXCEPT ![node_a].child = node_b]
             IN  [h |-> h2, ret |-> node_a, thrown |-> FALSE, k |-> k + 2]

\* meld_nodes(node_a, node_b) as the k+1st comparator call of the operation.
\* Result: the heap, the returned node, whether runtime_error left the call,
\* and the number of comparator calls made so far.
meld_nodes(h, node_a, node_b, mode, k) ==
    IF node_a = NULL THEN [h |-> h, ret |-> node_b, thrown |-> FALSE, k |-> k]
    ELSE IF node_b = NULL THEN [h |-> h, ret |-> node_a, thrown |-> FALSE, k |-> k]
    ELSE IF CompareThrows(mode, k + 1, h[node_a].val, h[node_b].val)
        THEN [h |-> h, ret |-> NULL, thrown |-> TRUE, k |-> k + 1]
    ELSE IF Less(h[node_a].val, h[node_b].val)
        THEN LET h1 == [h EXCEPT ![node_a].sibling = h[node_b].child]
                 h2 == [h1 EXCEPT ![node_b].child = node_a]
             IN  [h |-> h2, ret |-> node_b, thrown |-> FALSE, k |-> k + 1]
        ELSE LET h1 == [h EXCEPT ![node_b].sibling = h[node_a].child]
                 h2 == [h1 EXCEPT ![node_a].child = node_b]
             IN  [h |-> h2, ret |-> node_a, thrown |-> FALSE, k |-> k + 1]

\* compare_siblings(begin): the validation pass; it changes no node.
RECURSIVE compare_siblings(_, _, _, _)
compare_siblings(h, begin, mode, k) ==
    IF begin = NULL THEN [thrown |-> FALSE, k |-> k]
    ELSE IF h[begin].sibling = NULL THEN [thrown |-> FALSE, k |-> k]
    ELSE IF CompareThrows(mode, k + 1, h[begin].val, h[h[begin].sibling].val)
        THEN [thrown |-> TRUE, k |-> k + 1]
    ELSE compare_siblings(h, h[begin].sibling, mode, k + 1)

\* merge_siblings that melds the first pair and forgets the rest of the chain.
merge_siblings_firstPair(h, begin, mode, k) ==
    IF begin = NULL \/ h[begin].sibling = NULL
        THEN [h |-> h, ret |-> begin, thrown |-> FALSE, k |-> k]
    ELSE LET begin_sib == h[begin].sibling
             h1 == [h EXCEPT ![begin].sibling = NULL]
             h2 == [h1 EXCEPT ![begin_sib].sibling = NULL]
         IN  meld_nodes(h2, begin, begin_sib, mode, k)

\* merge_siblings(begin): the merge pass.  An exception leaving a meld leaves
\* the links already rewritten as they are.
RECURSIVE merge_siblings(_, _, _, _)
merge_siblings(h, begin, mode, k) ==
    IF begin = NULL \/ h[begin].sibling = NULL
        THEN [h |-> h, ret |-> begin, thrown |-> FALSE, k |-> k]
    ELSE LET begin_sib     == h[begin].sibling
             begin_sib_sib == h[begin_sib].sibling
             h1 == [h EXCEPT ![begin].sibling = NULL]
             h2 == [h1 EXCEPT ![begin_sib].sibling = NULL]
             self_and_sib == meld_nodes(h2, begin, begin_sib, mode, k)
         IN  IF self_and_sib.thrown THEN self_and_sib
             ELSE LET sib_of_sib ==
                          merge_siblings(self_and_sib.h, begin_sib_sib, mode,
                                         self_and_sib.k)
                  IN  IF sib_of_sib.thrown THEN sib_of_sib
                      ELSE meld_nodes(sib_of_sib.h, self_and_sib.ret,
                                      sib_of_sib.ret, mode, sib_of_sib.k)

\* ------------------------------------------------------- facade, as steps
\* size() and empty()
size(q) == raw_size_[q]
empty(q) == root[q] = NULL

\* top without the empty() test.
top_unchecked(h, r) ==
    [outcome |-> "ok", val |-> IF r = NULL THEN 0 ELSE h[r].val]

\* top() on a queue whose root is r: the way the call ended and the value
\* returned (0 when none is).
top(h, r) ==
    IF r = NULL THEN [outcome |-> "container_is_empty", val |-> 0]
    ELSE [outcome |-> "ok", val |-> h[r].val]

\* pop that forgets --raw_size_.
pop_noDecrement(h, lv, r, sz, mode) ==
    IF r = NULL
        THEN [h |-> h, live |-> lv, root |-> r, size |-> sz,
              outcome |-> "container_is_empty", calls |-> 0,
              threw |-> FALSE, stage |-> "none"]
    ELSE LET cs == compare_siblings(h, h[r].child, mode, 0)
         IN  IF cs.thrown
                 THEN [h |-> h, live |-> lv, root |-> r, size |-> sz,
                       outcome |-> "runtime_error", calls |-> cs.k,
                       threw |-> TRUE, stage |-> "compare_siblings"]
             ELSE LET new_root == merge_siblings(h, h[r].child, mode, cs.k)
                  IN  IF new_root.thrown
                          THEN [h |-> new_root.h, live |-> lv, root |-> r,
                                size |-> sz, outcome |-> "runtime_error",
                                calls |-> new_root.k,
                                threw |-> TRUE, stage |-> "merge_siblings"]
                      ELSE [h |-> [new_root.h EXCEPT ![r] = Blank],
                            live |-> lv \ {r}, root |-> new_root.ret,
                            size |-> sz, outcome |-> "ok",
                            calls |-> new_root.k,
                            threw |-> FALSE, stage |-> "none"]

\* pop() on a queue whose fields are r and sz: the heap, the live set and the
\* fields after the call, the way the call ended, the comparator calls made,
\* whether the comparator threw and the pass in which it did.
pop(h, lv, r, sz, mode) ==
    IF r = NULL
        THEN [h |-> h, live |-> lv, root |-> r, size |-> sz,
              outcome |-> "container_is_empty", calls |-> 0,
              threw |-> FALSE, stage |-> "none"]
    ELSE LET cs == compare_siblings(h, h[r].child, mode, 0)
         IN  IF cs.thrown
                 THEN [h |-> h, live |-> lv, root |-> r, size |-> sz,
                       outcome |-> "runtime_error", calls |-> cs.k,
                       threw |-> TRUE, stage |-> "compare_siblings"]
             ELSE LET new_root == merge_siblings(h, h[r].child, mode, cs.k)
                  IN  IF new_root.thrown
                          THEN [h |-> new_root.h, live |-> lv, root |-> r,
                                size |-> sz, outcome |-> "runtime_error",
                                calls |-> new_root.k,
                                threw |-> TRUE, stage |-> "merge_siblings"]
                      ELSE [h |-> [new_root.h EXCEPT ![r] = Blank],
                            live |-> lv \ {r}, root |-> new_root.ret,
                            size |-> sz - 1, outcome |-> "ok",
                            calls |-> new_root.k,
                            threw |-> FALSE, stage |-> "none"]

\* push with ++raw_size_ ahead of the meld: a throw leaves the count raised.
push_countsFirst(h, lv, r, sz, e, mode) ==
    LET new_node_ptr == NewAddr(lv)
        h0 == [h EXCEPT ![new_node_ptr] = pq_node(e, NULL, NULL)]
        m  == meld_nodes(h0, r, new_node_ptr, mode, 0)
    IN  IF m.thrown
            THEN [h |-> h, live |-> lv, root |-> r, size |-> sz + 1,
                  outcome |-> "runtime_error", calls |-> m.k, threw |-> TRUE]
        ELSE [h |-> m.h, live |-> lv \cup {new_node_ptr}, root |-> m.ret,
              size |-> sz + 1, outcome |-> "ok", calls |-> m.k, threw |-> FALSE]

\* push whose handler releases the node and does not rethrow: the call
\* returns normally.
push_swallows(h, lv, r, sz, e, mode) ==
    LET new_node_ptr == NewAddr(lv)
        h0 == [h EXCEPT ![new_node_ptr] = pq_node(e, NULL, NULL)]
        m  == meld_nodes(h0, r, new_node_ptr, mode, 0)
    IN  IF m.thrown
            THEN [h |-> h, live |-> lv, root |-> r, size |-> sz,
                  outcome |-> "ok", calls |-> m.k, threw |-> TRUE]
        ELSE [h |-> m.h, live |-> lv \cup {new_node_ptr}, root |-> m.ret,
              size |-> sz + 1, outcome |-> "ok", calls |-> m.k, threw |-> FALSE]

\* push(e) on a queue whose fields are r and sz.
push(h, lv, r, sz, e, mode) ==
    LET new_node_ptr == NewAddr(lv)
        h0 == [h EXCEPT ![new_node_ptr] = pq_node(e, NULL, NULL)]
        m  == meld_nodes(h0, r, new_node_ptr, mode, 0)
    IN  IF m.thrown
            THEN [h |-> h, live |-> lv, root |-> r, size |-> sz,
                  outcome |-> "runtime_error", calls |-> m.k, threw |-> TRUE]
        ELSE [h |-> m.h, live |-> lv \cup {new_node_ptr}, root |-> m.ret,
              size |-> sz + 1, outcome |-> "ok", calls |-> m.k, threw |-> FALSE]

\* merge without other.root = nullptr: the source keeps its root.
merge_keepsSource(h, rt, sz, q, o, mode) ==
    LET m == meld_nodes(h, rt[q], rt[o], mode, 0)
    IN  IF m.thrown
            THEN [h |-> h, root |-> rt, size |-> sz,
                  outcome |-> "runtime_error", calls |-> m.k, threw |-> TRUE]
        ELSE LET rt1 == [rt EXCEPT ![q] = m.ret]
                 sz1 == [sz EXCEPT ![q] = sz[q] + sz[o]]
                 sz2 == [sz1 EXCEPT ![o] = 0]
             IN  [h |-> m.h, root |-> rt1, size |-> sz2,
                  outcome |-> "ok", calls |-> m.k, threw |-> FALSE]

\* merge that clears the source whether or not the meld threw.
merge_clearsOnThrow(h, rt, sz, q, o, mode) ==
    LET m == meld_nodes(h, rt[q], rt[o], mode, 0)
    IN  IF m.thrown
            THEN [h |-> h, root |-> [rt EXCEPT ![o] = NULL],
                  size |-> [sz EXCEPT ![o] = 0],
                  outcome |-> "runtime_error", calls |-> m.k, threw |-> TRUE]
        ELSE LET rt1 == [rt EXCEPT ![q] = m.ret]
                 rt2 == [rt1 EXCEPT ![o] = NULL]
                 sz1 == [sz EXCEPT ![q] = sz[q] + sz[o]]
                 sz2 == [sz1 EXCEPT ![o] = 0]
             IN  [h |-> m.h, root |-> rt2, size |-> sz2,
                  outcome |-> "ok", calls |-> m.k, threw |-> FALSE]

\* merge(other) on queue q with other = o: the root and raw_size_ of every
\* queue after the call; the assignments are made in the order of the code.
merge(h, rt, sz, q, o, mode) ==
    LET m == meld_nodes(h, rt[q], rt[o], mode, 0)
    IN  IF m.thrown
            THEN [h |-> h, root |-> rt, size |-> sz,
                  outcome |-> "runtime_error", calls |-> m.k, threw |-> TRUE]
        ELSE LET rt1 == [rt EXCEPT ![q] = m.ret]
                 rt2 == [rt1 EXCEPT ![o] = NULL]
                 sz1 == [sz EXCEPT ![q] = sz[q] + sz[o]]
                 sz2 == [sz1 EXCEPT ![o] = 0]
             IN  [h |-> m.h, root |-> rt2, size |-> sz2,
                  outcome |-> "ok", calls |-> m.k, threw |-> FALSE]

\* ~priority_queue(), and the release at the head of operator=: the addresses
\* deleted for a queue whose root is r.
release(h, r) == IF r # NULL THEN recursive_del(h, r) \cup {r} ELSE {}

Wipe(h, S) == [n \in Nodes |-> IF n \in S THEN Blank ELSE h[n]]

\* priority_queue(const priority_queue &other): the members start as their
\* default initializers say (root nullptr, raw_size_ 0).
copy_construct(h, lv, other_root, other_size) ==
    IF NULL = other_root
        THEN [h |-> h, live |-> lv, root |-> NULL, size |-> 0, outcome |-> "ok"]
    ELSE LET d == recursive_dup(h, lv, other_root)
         IN  [h |-> d.h, live |-> d.live, root |-> d.ret, size |-> other_size,
              outcome |-> "ok"]

\* What other.root->recursive_dup() can do when other.root is nullptr: 0 is
\* the fault that ends the process; a value v is a build in which the load of
\* val through the null pointer yields v and the loads of child and sibling
\* yield nullptr.
NullDerefOutcomes == {0} \cup Values

\* operator=(other) on a queue whose fields are r and sz.  When the call
\* dereferences nullptr, g is the outcome taken.
assign(h, lv, r, sz, other_root, other_size, g) ==
    IF r = other_root
        THEN [h |-> h, live |-> lv, root |-> r, size |-> sz, outcome |-> "ok"]
    ELSE LET gone == release(h, r)
             h1   == Wipe(h, gone)
             lv1  == lv \ gone
         IN  IF other_root = NULL
                 THEN IF g = 0
                         THEN [h |-> h1, live |-> lv1, root |-> r, size |-> sz,
                               outcome |-> "ub"]
                         ELSE [h |-> [h1 EXCEPT ![NewAddr(lv1)] = pq_node(g, NULL, NULL)],
                               live |-> lv1 \cup {NewAddr(lv1)},
                               root |-> NewAddr(lv1), size |-> other_size,
                               outcome |-> "ub"]
             ELSE LET d == recursive_dup(h1, lv1, other_root)
                  IN  [h |-> d.h, live |-> d.live, root |-> d.ret,
                       size |-> other_size, outcome |-> "ok"]

\* --------------------------------------------------------------- history
\* What an observer could see of every queue before the call: size(), the
\* graph of the root as a value, and the number of live nodes.
Snapshot ==
    [size  |-> raw_size_,
     shape |-> [q \in Queues |-> Shape(heap, root[q])],
     nlive |-> Cardinality(live)]

\* The record of a call.  e is the argument of push or the value top
\* returned.  threw is the comparator mode that threw in it
\* (NoThrow when the comparator did not throw), stage the pass of pop in which
\* it threw.
Call(op, q, o, e, outcome, calls, threw, stage) ==
    [op |-> op, q |-> q, o |-> o, e |-> e, outcome |-> outcome,
     calls |-> calls, threw |-> threw, stage |-> stage, pre |-> Snapshot]

NoCall ==
    [op |-> "none", q |-> "-", o |-> "-", e |-> 0, outcome |-> "ok",
     calls |-> 0, threw |-> NoThrow, stage |-> "none",
     pre |-> [size  |-> [q \in Queues |-> 0],
              shape |-> [q \in Queues |-> <<>>],
              nlive |-> 0]]

\* ------------------------------------------------------------------ Init
\* Both queues have been default-constructed.
Init ==
    /\ heap = [n \in Nodes |-> Blank]
    /\ live = {}
    /\ constructed = [q \in Queues |-> TRUE]
    /\ root = [q \in Queues |-> NULL]
    /\ raw_size_ = [q \in Queues |-> 0]
    /\ ledger = [q \in Queues |-> 0]
    /\ copyOf = [q \in Queues |-> "-"]
    /\ ub = FALSE
    /\ last = NoCall

\* --------------------------------------------------------------- actions
\* The arena and the roots after a call, in the numbering of Renumber.
Store(h, lv, rt) ==
    LET c == Renumber(h, lv, rt)
    IN  /\ heap' = c.h
        /\ live' = c.live
        /\ root' = c.root

\* priority_queue() = default
DefaultConstruct(q) ==
    /\ ~ub /\ ~constructed[q]
    /\ constructed' = [constructed EXCEPT ![q] = TRUE]
    /\ root' = [root EXCEPT ![q] = NULL]
    /\ raw_size_' = [raw_size_ EXCEPT ![q] = 0]
    /\ ledger' = [ledger EXCEPT ![q] = 0]
    /\ copyOf' = [p \in Queues |-> IF p = q \/ copyOf[p] = q THEN "-" ELSE copyOf[p]]
    /\ last' = Call("construct", q, "-", 0, "ok", 0, NoThrow, "none")
    /\ UNCHANGED <<heap, live, ub>>

\* ~priority_queue()
Destroy(q) ==
    /\ ~ub /\ constructed[q]
    /\ LET gone == release(heap, root[q])
       IN  Store(Wipe(heap, gone), live \ gone, [root EXCEPT ![q] = NULL])
    /\ constructed' = [constructed EXCEPT ![q] = FALSE]
    /\ raw_size_' = [raw_size_ EXCEPT ![q] = 0]
    /\ ledger' = [ledger EXCEPT ![q] = 0]
    /\ copyOf' = [p \in Queues |-> IF p = q \/ copyOf[p] = q THEN "-" ELSE copyOf[p]]
    /\ last' = Call("destroy", q, "-", 0, "ok", 0, NoThrow, "none")
    /\ UNCHANGED ub

\* top()
Top(q) ==
    /\ ~ub /\ constructed[q]
    /\ LET r == top(heap, root[q])
       IN  last' = Call("top", q, "-", r.val, r.outcome, 0, NoThrow, "none")
    /\ UNCHANGED <<heap, live, constructed, root, raw_size_, ledger, copyOf, ub>>

\* push(e), with the comparator in the given mode
Push(q, e, mode) ==
    /\ ~ub /\ constructed[q]
    /\ Nodes \ live # {}
    /\ LET r == push(heap, live, root[q], raw_size_[q], e, mode)
       IN  /\ Store(r.h, r.live, [root EXCEPT ![q] = r.root])
           /\ raw_size_' = [raw_size_ EXCEPT ![q] = r.size]
           /\ ledger' = [ledger EXCEPT ![q] = IF r.outcome = "ok" THEN @ + 1 ELSE @]
           /\ last' = Call("push", q, "-", e, r.outcome, r.calls,
                           IF r.threw THEN mode ELSE NoThrow, "none")
    /\ UNCHANGED <<constructed, copyOf, ub>>

\* pop(), with the comparator in the given mode
Pop(q, mode) ==
    /\ ~ub /\ constructed[q]
    /\ LET r == pop(heap, live, root[q], raw_size_[q], mode)
       IN  /\ Store(r.h, r.live, [root EXCEPT ![q] = r.root])
           /\ raw_size_' = [raw_size_ EXCEPT ![q] = r.size]
           /\ ledger' = [ledger EXCEPT ![q] = IF r.outcome = "ok" THEN @ - 1 ELSE @]
           /\ last' = Call("pop", q, "-", 0, r.outcome, r.calls,
                           IF r.threw THEN mode ELSE NoThrow, r.stage)
    /\ UNCHANGED <<constructed, copyOf, ub>>

\* q.merge(o), with the comparator in the given mode
Merge(q, o, mode) ==
    /\ ~ub /\ constructed[q] /\ constructed[o]
    /\ LET r == merge(heap, root, raw_size_, q, o, mode)
           moved == Cardinality(Reach(heap, root[o]))
       IN  /\ Store(r.h, live, r.root)
           /\ raw_size_' = r.size
           /\ ledger' = IF r.outcome = "ok"
                           THEN [[ledger EXCEPT ![q] = @ + moved] EXCEPT ![o] = @ - moved]
                           ELSE ledger
           /\ copyOf' = IF r.outcome = "ok" THEN [p \in Queues |-> "-"] ELSE copyOf
           /\ last' = Call("merge", q, o, 0, r.outcome, r.calls,
                           IF r.threw THEN mode ELSE NoThrow, "none")
    /\ UNCHANGED <<constructed, ub>>

\* priority_queue q(o): copy construction of q from o
CopyConstruct(q, o) ==
    /\ ~ub /\ ~constructed[q] /\ constructed[o]
    /\ Cardinality(Nodes \ live) >= Cardinality(Reach(heap, root[o]))
    /\ LET r == copy_construct(heap, live, root[o], raw_size_[o])
       IN  /\ Store(r.h, r.live, [root EXCEPT ![q] = r.root])
           /\ raw_size_' = [raw_size_ EXCEPT ![q] = r.size]
           /\ last' = Call("copy", q, o, 0, r.outcome, 0, NoThrow, "none")
    /\ constructed' = [constructed EXCEPT ![q] = TRUE]
    /\ ledger' = [ledger EXCEPT ![q] = Cardinality(Reach(heap, root[o]))]
    /\ copyOf' = [copyOf EXCEPT ![q] = o]
    /\ UNCHANGED ub

\* q = o: copy assignment (q and o may be the same object)
Assign(q, o, g) ==
    /\ ~ub /\ constructed[q] /\ constructed[o]
    /\ g # 0 => (root[q] # root[o] /\ root[o] = NULL)
    /\ Cardinality(Nodes \ (live \ release(heap, root[q])))
           >= Cardinality(Reach(heap, root[o]))
    /\ LET r == assign(heap, live, root[q], raw_size_[q], root[o], raw_size_[o], g)
       IN  /\ Store(r.h, r.live, [root EXCEPT ![q] = r.root])
           /\ raw_size_' = [raw_size_ EXCEPT ![q] = r.size]
           /\ ub' = (r.outcome = "ub")
           /\ last' = Call("assign", q, o, 0, r.outcome, 0, NoThrow, "none")
    /\ ledger' = [ledger EXCEPT ![q] = Cardinality(Reach(heap, root[o]))]
    /\ copyOf' = IF q = o THEN copyOf
                 ELSE [p \in Queues |-> IF p = q THEN o ELSE "-"]
    /\ UNCHANGED constructed

\* ------------------------------------------------------- specifications
\* Push, pop, top and merge between distinct queues, with a comparator that
\* never throws.
Next ==
    \/ \E q \in Queues : Top(q)
    \/ \E q \in Queues, e \in Values : Push(q, e, NoThrow)
    \/ \E q \in Queues : Pop(q, NoThrow)
    \/ \E q \in Queues : \E o \in Queues \ {q} : Merge(q, o, NoThrow)

Spec == Init /\ [][Next]_vars

\* The value of the root r, and the values of its children.
RootVal(h, r) == IF r = NULL THEN {} ELSE {h[r].val}
KidVals(h, r) ==
    IF r = NULL THEN {}
    ELSE {h[Children(h, r)[i]].val : i \in 1..Len(Children(h, r))}

\* The comparator calls of pop on root r: one per adjacent pair of children in
\* the validation pass and as many melds in the merge pass.
PopCalls(h, r) ==
    IF r = NULL \/ h[r].child = NULL THEN 0
    ELSE 2 * (Len(Children(h, r)) - 1)

\* A mode that cannot throw on the operands at hand acts as NoThrow does, so
\* it is not tried again: the call number of an "nth" mode is one the call can
\* reach, the values of a "pair" mode are values the call can compare.
CanThrow(mode, xs, ys, most) ==
    \/ mode.kind = "never"
    \/ mode.kind = "nth" /\ mode.n <= most
    \/ mode.kind = "pair" /\ mode.x \in xs /\ mode.y \in ys

\* The calls that invoke the comparator, with a comparator that may throw.
NextThrow ==
    \/ \E q \in Queues, e \in Values, mode \in ThrowModes :
          /\ CanThrow(mode, RootVal(heap, root[q]), {e}, 1)
          /\ Push(q, e, mode)
    \/ \E q \in Queues, mode \in ThrowModes :
          /\ CanThrow(mode, KidVals(heap, root[q]), KidVals(heap, root[q]),
                      PopCalls(heap, root[q]))
          /\ Pop(q, mode)
    \/ \E q \in Queues : \E o \in Queues \ {q} : \E mode \in ThrowModes :
          /\ CanThrow(mode, RootVal(heap, root[q]), RootVal(heap, root[o]), 1)
          /\ Merge(q, o, mode)

SpecThrow == Init /\ [][NextThrow]_vars

\* Every call of the interface, object lifetimes included, with a comparator
\* that never throws.
NextCopy ==
    \/ Next
    \/ \E q \in Queues : DefaultConstruct(q)
    \/ \E q \in Queues : Destroy(q)
    \/ \E q \in Queues : \E o \in Queues \ {q} : CopyConstruct(q, o)
    \/ \E q \in Queues, o \in Queues, g \in NullDerefOutcomes : Assign(q, o, g)

SpecCopy == Init /\ [][NextCopy]_vars

\* Push, pop, top and merge, the argument of merge being any queue: the other
\* one or the queue itself.
NextAlias ==
    \/ Next
    \/ \E q \in Queues : Merge(q, q, NoThrow)

SpecAlias == Init /\ [][NextAlias]_vars

\* ================================================================ claims
\* The multiset of values of a shape, and the number of children of its root.
RECURSIVE ElemsOfShape(_)
ElemsOfShape(sh) ==
    IF sh = <<>> THEN EmptyBag
    ELSE BagAdd(BagSum(ElemsOfShape(sh[2]), ElemsOfShape(sh[3])), sh[1])

RECURSIVE ChainLen(_)
ChainLen(sh) == IF sh = <<>> THEN 0 ELSE 1 + ChainLen(sh[3])
KidsOfShape(sh) == IF sh = <<>> THEN 0 ELSE ChainLen(sh[2])

RECURSIVE BagOfSeq(_)
BagOfSeq(sq) == IF sq = <<>> THEN EmptyBag ELSE BagAdd(BagOfSeq(Tail(sq)), Head(sq))

\* v is maximal in bag b under the comparator: it precedes no value of b.
MaximalIn(v, b) == \A w \in Values : b[w] > 0 => ~Less(v, w)

\* top() then pop() until empty(), with a comparator that does not throw: the
\* values top() returned, in order.  fuel bounds the loop.
RECURSIVE Drain(_, _, _, _, _)
Drain(h, lv, r, sz, fuel) ==
    IF r = NULL \/ fuel = 0 THEN <<>>
    ELSE LET p == pop(h, lv, r, sz, NoThrow)
         IN  <<top(h, r).val>> \o Drain(p.h, p.live, p.root, p.size, fuel - 1)

\* C1: with a comparator that does not throw, after any sequence of push, pop
\* and merge, top() of a non-empty queue is maximal among the values the queue
\* holds.
C1_TopIsMaximal ==
    \A q \in Queues :
        ~empty(q) =>
            /\ top(heap, root[q]).outcome = "ok"
            /\ MaximalIn(top(heap, root[q]).val, Elems(heap, root[q]))

\* A pop of a root with two or more children has left a queue of three values,
\* not all equal.
C1_Witness ==
    /\ last.op = "pop" /\ last.outcome = "ok"
    /\ KidsOfShape(last.pre.shape[last.q]) >= 2
    /\ raw_size_[last.q] = 3
    /\ \E v \in Values : Elems(heap, root[last.q])[v] > 0
                         /\ Less(v, heap[root[last.q]].val)

\* C3: with a comparator that does not throw, top() then pop() until empty()
\* yields every value the queue holds exactly once, in non-increasing order.
C3_DrainSorted ==
    \A q \in Queues :
        LET d == Drain(heap, live, root[q], raw_size_[q], MaxNodes + 1)
        IN  /\ Len(d) = raw_size_[q]
            /\ BagOfSeq(d) = Elems(heap, root[q])
            /\ \A i \in 1..(Len(d) - 1) : ~Less(d[i], d[i + 1])

\* A queue filled by a merge holds four values whose root has three children,
\* so that draining it consolidates a chain of three and then shorter ones.
C3_Witness ==
    /\ last.op = "merge" /\ last.outcome = "ok"
    /\ raw_size_[last.q] = 4
    /\ Len(Children(heap, root[last.q])) = 3
    /\ \E v \in Values : Elems(heap, root[last.q])[v] > 0
                         /\ Less(v, heap[root[last.q]].val)

\* C4: after a successful A.merge(B) of two distinct queues, B is empty with
\* size 0, A's size is the sum of the two sizes before, A holds the multiset
\* union of what the two held, and A's top is maximal in that union.
C4_MergeDrainsSource ==
    (last.op = "merge" /\ last.outcome = "ok" /\ last.q # last.o) =>
        LET a == last.q
            b == last.o
            union == BagSum(ElemsOfShape(last.pre.shape[a]),
                            ElemsOfShape(last.pre.shape[b]))
        IN  /\ empty(b) /\ size(b) = 0
            /\ size(a) = last.pre.size[a] + last.pre.size[b]
            /\ Elems(heap, root[a]) = union
            /\ ~empty(a) => MaximalIn(top(heap, root[a]).val, union)

\* Two queues of two values each have been merged.
C4_Witness ==
    /\ last.op = "merge" /\ last.outcome = "ok" /\ last.q # last.o
    /\ last.pre.size[last.q] = 2 /\ last.pre.size[last.o] = 2
    /\ raw_size_[last.q] = 4

\* C8: with a comparator that does not throw, size() of each queue is the
\* number of nodes reachable from its root, and is its pushes minus its pops
\* minus the elements merged out plus the elements merged in.
C8_CountCorrect ==
    \A q \in Queues :
        /\ size(q) = Cardinality(Reach(heap, root[q]))
        /\ size(q) = ledger[q]

\* A pop has taken a queue of four elements to three while the other queue is
\* empty.
C8_Witness ==
    /\ last.op = "pop" /\ last.outcome = "ok"
    /\ last.pre.size[last.q] = 4
    /\ \E o \in Queues \ {last.q} : empty(o)
    /\ ledger[last.q] = 3

\* C10: a default-constructed queue is empty with size 0; top() and pop() on
\* an empty queue signal container_is_empty and change neither root nor count.
C10_EmptyQueueErrors ==
    /\ last.op = "none" => \A q \in Queues : empty(q) /\ size(q) = 0
    /\ (last.op \in {"top", "pop"} /\ last.pre.shape[last.q] = <<>>) =>
           /\ last.outcome = "container_is_empty"
           /\ root[last.q] = NULL
           /\ raw_size_[last.q] = last.pre.size[last.q]
           /\ Cardinality(live) = last.pre.nlive

\* pop() has been called on an empty queue while the other queue holds two or
\* more elements.
C10_Witness ==
    /\ last.op = "pop" /\ last.outcome = "container_is_empty"
    /\ \E o \in Queues \ {last.q} : raw_size_[o] >= 2

\* The number of nodes of a shape.
RECURSIVE NodesOfShape(_)
NodesOfShape(sh) ==
    IF sh = <<>> THEN 0 ELSE 1 + NodesOfShape(sh[2]) + NodesOfShape(sh[3])

\* The comparator threw during the last call.
ComparatorThrew == last.threw # NoThrow

\* C2: if the comparator throws during pop() on a non-empty queue, pop signals
\* runtime_error and the queue has the size and the multiset of elements
\* reachable from its root that it had before the call.
C2_PopStronglySafe ==
    (last.op = "pop" /\ ComparatorThrew) =>
        /\ last.outcome = "runtime_error"
        /\ size(last.q) = last.pre.size[last.q]
        /\ Elems(heap, root[last.q]) = ElemsOfShape(last.pre.shape[last.q])

\* C6: if the comparator throws during push(e), push signals runtime_error,
\* the new node is released, and the queue's graph, size and elements are as
\* before the call.
C6_PushStronglySafe ==
    (last.op = "push" /\ ComparatorThrew) =>
        /\ last.outcome = "runtime_error"
        /\ Cardinality(live) = last.pre.nlive
        /\ Shape(heap, root[last.q]) = last.pre.shape[last.q]
        /\ size(last.q) = last.pre.size[last.q]
        /\ Elems(heap, root[last.q]) = ElemsOfShape(last.pre.shape[last.q])

\* A push onto a queue of two or more elements in which the comparator threw.
C6_Witness ==
    /\ last.op = "push" /\ ComparatorThrew
    /\ last.pre.size[last.q] >= 2
    /\ last.pre.shape[last.q] # <<>>

\* C7: if the comparator throws during A.merge(B), runtime_error propagates
\* and both queues keep their graph, size and elements; B is not cleared.
C7_MergeStronglySafe ==
    (last.op = "merge" /\ ComparatorThrew) =>
        /\ last.outcome = "runtime_error"
        /\ \A p \in {last.q, last.o} :
               /\ Shape(heap, root[p]) = last.pre.shape[p]
               /\ size(p) = last.pre.size[p]
        /\ ~empty(last.o) /\ size(last.o) > 0

\* A merge of two queues of two elements each in which the comparator threw.
C7_Witness ==
    /\ last.op = "merge" /\ ComparatorThrew
    /\ last.pre.size[last.q] = 2 /\ last.pre.size[last.o] = 2

\* C5: copy assignment C = A, for every combination of empty and non-empty C
\* and A, dereferences no absent node, releases C's previous graph and leaves C
\* with an independent duplicate of A's graph, C.size() == A.size() and
\* C.empty() == A.empty().
C5_AssignDuplicates ==
    last.op = "assign" =>
        /\ ~ub /\ last.outcome = "ok"
        /\ Shape(heap, root[last.q]) = Shape(heap, root[last.o])
        /\ size(last.q) = size(last.o)
        /\ empty(last.q) = empty(last.o)
        /\ last.q # last.o =>
               Reach(heap, root[last.q]) \cap Reach(heap, root[last.o]) = {}
        /\ Cardinality(live) =
               last.pre.nlive - NodesOfShape(last.pre.shape[last.q])
                              + Cardinality(Reach(heap, root[last.o]))

\* C9: once C has been made a copy of A (by construction or assignment), push
\* and pop on either of the two leave the size, the top and the elements of
\* the other unchanged.
C9_CopyIndependent ==
    (last.op \in {"push", "pop"}) =>
        \A o \in Queues \ {last.q} :
            (constructed[o] /\ (copyOf[last.q] = o \/ copyOf[o] = last.q)) =>
                /\ size(o) = last.pre.size[o]
                /\ Shape(heap, root[o]) = last.pre.shape[o]
                /\ top(heap, root[o]).val = (IF last.pre.shape[o] = <<>> THEN 0
                                             ELSE last.pre.shape[o][1])
                /\ Elems(heap, root[o]) = ElemsOfShape(last.pre.shape[o])

\* A successful pop on one of a copy and its non-empty original.
C9_Witness ==
    /\ last.op = "pop" /\ last.outcome = "ok"
    /\ \E o \in Queues \ {last.q} :
           /\ copyOf[last.q] = o \/ copyOf[o] = last.q
           /\ raw_size_[o] = 2
           /\ last.pre.shape[o] = last.pre.shape[last.q]

\* C11: with a comparator that throws on a fixed pair of values, a pop whose
\* validation pass compare_siblings completed without throwing does not throw
\* in its merge pass merge_siblings.
C11_MergePassNeverThrows ==
    (last.op = "pop" /\ last.threw.kind = "pair") =>
        last.stage # "merge_siblings"

\* C12: in every state reached by successful push, pop, merge and copy with a
\* comparator that does not throw, no node of a queue precedes one of its
\* children under the comparator: Compare(n.val, c.val) is false for every
\* node n and every c in n's child list.
C12_HeapOrder ==
    ~ub =>
        \A q \in Queues : \A n \in Reach(heap, root[q]) :
            \A i \in 1..Len(Children(heap, n)) :
                ~Less(heap[n].val, heap[Children(heap, n)[i]].val)

\* A merge has made a tree of three levels whose root is strictly above its
\* child, while the other queue has been left empty.
C12_Witness ==
    /\ last.op = "merge" /\ last.outcome = "ok"
    /\ last.pre.shape[last.o] # <<>>
    /\ root[last.q] # NULL
    /\ \E i \in 1..Len(Children(heap, root[last.q])) :
           LET c == Children(heap, root[last.q])[i]
           IN  /\ heap[c].child # NULL
               /\ Less(heap[c].val, heap[root[last.q]].val)

\* C13: in every reachable state, after any sequence of push, pop, merge
\* between distinct queues, copy construction and assignment, the nodes
\* reachable from the roots of two distinct queues are disjoint.
C13_NoSharedNodes ==
    \A q \in Queues : \A o \in Queues \ {q} :
        Reach(heap, root[q]) \cap Reach(heap, root[o]) = {}

\* An assignment between distinct queues has left each of the two with a
\* graph of two nodes.
C13_Witness ==
    /\ last.op = "assign" /\ last.outcome = "ok" /\ last.q # last.o
    /\ Cardinality(Reach(heap, root[last.q])) = 2
    /\ Cardinality(Reach(heap, root[last.o])) = 2

\* The comparator calls a successful pop makes on a root with kids children:
\* in each of its two passes, and in all.
PassCalls(kids) == IF kids = 0 THEN 0 ELSE kids - 1
PopTotal(kids) == 2 * PassCalls(kids)

\* C14: with a comparator that does not throw, a meld of two present nodes
\* calls the comparator exactly once and a meld with an absent node never;
\* push calls it 0 times on an empty queue and once otherwise; merge calls it
\* once when both queues are non-empty and 0 times otherwise; a successful
\* pop of a root with k >= 1 children makes k-1 calls in the validation pass
\* and then k-1 in the merge pass, and none when the root has no children.
C14_CallCounts ==
    /\ \A q \in Queues : \A o \in Queues \ {q} :
           meld_nodes(heap, root[q], root[o], NoThrow, 0).k =
               (IF root[q] # NULL /\ root[o] # NULL THEN 1 ELSE 0)
    /\ \A q \in Queues :
           root[q] # NULL =>
               LET begin == heap[root[q]].child
                   kids  == Len(Children(heap, root[q]))
                   cs    == compare_siblings(heap, begin, NoThrow, 0)
                   ms    == merge_siblings(heap, begin, NoThrow, cs.k)
               IN  /\ cs.k = PassCalls(kids)
                   /\ ms.k - cs.k = PassCalls(kids)
                   /\ pop(heap, live, root[q], raw_size_[q], NoThrow).calls
                          = PopTotal(kids)
    /\ (last.op = "push" /\ last.outcome = "ok") =>
           last.calls = (IF last.pre.shape[last.q] = <<>> THEN 0 ELSE 1)
    /\ (last.op = "merge" /\ last.outcome = "ok") =>
           last.calls = (IF last.pre.shape[last.q] # <<>>
                            /\ last.pre.shape[last.o] # <<>> THEN 1 ELSE 0)
    /\ (last.op = "pop" /\ last.outcome = "ok") =>
           last.calls = PopTotal(KidsOfShape(last.pre.shape[last.q]))

\* A pop of a root with three children has succeeded after four comparator
\* calls, and has left a root that again has children.
C14_Witness ==
    /\ last.op = "pop" /\ last.outcome = "ok"
    /\ KidsOfShape(last.pre.shape[last.q]) = 3
    /\ last.calls = 4
    /\ Len(Children(heap, root[last.q])) >= 1

\* C15: in every reachable state of a queue, the states after calls that
\* ended with container_is_empty or runtime_error included, the count is 0
\* exactly when the root is absent: empty() = (size() = 0).
C15_CountZeroIffEmpty ==
    \A q \in Queues : (raw_size_[q] = 0) <=> (root[q] = NULL)

\* C16: whenever the comparator throws during push, pop or merge, the call
\* ends with runtime_error and nothing else: the exception is not swallowed,
\* and the comparator is not called again after the call that threw.
C16_ThrowBecomesRuntimeError ==
    (last.op \in {"push", "pop", "merge"} /\ ComparatorThrew) =>
        /\ last.outcome = "runtime_error"
        /\ last.calls >= 1
        /\ last.threw.kind = "nth" => last.calls = last.threw.n
        /\ last.op \in {"push", "merge"} => last.calls = 1
        /\ last.op = "pop" =>
               last.calls <= PopTotal(KidsOfShape(last.pre.shape[last.q]))

\* The comparator has thrown on a pair of values in the validation pass of a
\* pop of a root with three children.
C16_Witness ==
    /\ last.op = "pop" /\ ComparatorThrew
    /\ last.threw.kind = "pair"
    /\ last.stage = "compare_siblings"
    /\ KidsOfShape(last.pre.shape[last.q]) = 3
    /\ last.outcome = "runtime_error"

\* The number of child and sibling links from nodes of R to n, and whether the
\* graph reachable from r is a tree: no link reaches r and exactly one reaches
\* every other node.
InDegree(h, R, n) ==
    Cardinality({m \in R : h[m].child = n}) +
    Cardinality({m \in R : h[m].sibling = n})
IsTree(h, r) ==
    r = NULL \/ /\ InDegree(h, Reach(h, r), r) = 0
                /\ \A n \in Reach(h, r) \ {r} : InDegree(h, Reach(h, r), n) = 1

\* C17: after a successful A.merge(B) with a comparator that does not throw,
\* B being another queue or A itself, A and B together hold the multiset of
\* elements they held together before the call, and the graph reachable from
\* each root is a finite acyclic tree.
C17_MergeConserves ==
    (last.op = "merge" /\ last.outcome = "ok") =>
        /\ (IF last.q = last.o
               THEN Elems(heap, root[last.q])
               ELSE BagSum(Elems(heap, root[last.q]), Elems(heap, root[last.o])))
           = (IF last.q = last.o
                 THEN ElemsOfShape(last.pre.shape[last.q])
                 ELSE BagSum(ElemsOfShape(last.pre.shape[last.q]),
                             ElemsOfShape(last.pre.shape[last.o])))
        /\ \A p \in {last.q, last.o} : IsTree(heap, root[p])
====
